---- MODULE Spec2Model ----
(***************************************************************************)
(* A model of the peer protocol engine of src/file_sharing/peer.py.        *)
(*                                                                         *)
(* Peers are numbered 1..n in the order of PeerInfo.cfg.  Every peer runs  *)
(* the threads the source starts: the main thread (connect_to_predecessors *)
(* then termination_check_loop), one message_handler thread per session,   *)
(* the choking_timer and the optimistic_unchoking_timer.  A TCP connection *)
(* is a FIFO queue of frames per direction.  A handler step is one of the  *)
(* places where the source thread can be preempted between a read of       *)
(* shared state and the write that depends on it.                          *)
(***************************************************************************)
EXTENDS Integers, Sequences, FiniteSets, TLC

\* src/file_sharing/protocol.py: message type constants.
MSG_CHOKE == 0
MSG_UNCHOKE == 1
MSG_INTERESTED == 2
MSG_NOT_INTERESTED == 3
MSG_HAVE == 4
MSG_BITFIELD == 5
MSG_REQUEST == 6
MSG_PIECE == 7

\* Bounds of the model.
PieceSize == 1
MaxPieces == 2
TriplePieces == 1
MaxQueue == 1
MaxPeers == 4
MaxFrames == 2
MaxBytes == 2
MaxBits == 9

VARIABLES
    config,            \* Common.cfg / PeerInfo.cfg: [n, hasFile, k, num_pieces]
    running,           \* Peer.running, per peer
    bitfield,          \* FileManager.bitfield, per peer: sequence of 0/1
    requested_pieces,  \* FileManager.requested_pieces, per peer: set of indices
    connections,       \* Peer.connections, per peer: neighbor_id -> PeerConnection
    connOrder,         \* insertion order of the keys of Peer.connections
    handler,           \* per peer and neighbor: position of the session's thread
    term,              \* per peer: position of termination_check_loop
    net,               \* <<p, q>> -> frames sent by p, not yet read by q
    sock,              \* one session's socket: bytes written, sendall calls in progress
    shake,             \* one handshake: the identifier sent, the bytes read, the result
    cycle              \* per peer: position of choking_timer in its cycle, its choice

vars == <<config, running, bitfield, requested_pieces, connections, connOrder,
          handler, term, net, sock, shake, cycle>>

Peers == 1 .. config.n
PeerIds == 1 .. MaxPeers
IsSession(p, q) == p \in Peers /\ q \in Peers /\ p # q

----------------------------------------------------------------------------
(* FileManager *)

has_piece(bf, index) == bf[index + 1] = 1

\* a completeness test that wants at least one piece
has_complete_file_nonempty(bf) == Len(bf) > 0 /\ \A j \in 1 .. Len(bf) : bf[j] = 1

has_complete_file(bf) == \A j \in 1 .. Len(bf) : bf[j] = 1

Pow2(e) == CASE e = 0 -> 1 [] e = 1 -> 2 [] e = 2 -> 4 [] e = 3 -> 8
             [] e = 4 -> 16 [] e = 5 -> 32 [] e = 6 -> 64 [] OTHER -> 128

RECURSIVE SumBits(_, _, _)
SumBits(bf, byte_index, i) ==
    IF i >= Len(bf) \/ i >= 8 * (byte_index + 1) THEN 0
    ELSE (IF bf[i + 1] = 1 THEN Pow2(7 - (i % 8)) ELSE 0)
         + SumBits(bf, byte_index, i + 1)

\* a packing that allocates num_pieces // 8 bytes: the last, partial byte is lost
get_bitfield_bytes_floor(bf) ==
    [b \in 1 .. (Len(bf) \div 8) |-> SumBits(bf, b - 1, 8 * (b - 1))]

\* the bitfield list packed into bytes, piece i at bit 7 - i % 8 of byte i \div 8
get_bitfield_bytes(bf) ==
    [b \in 1 .. ((Len(bf) + 7) \div 8) |-> SumBits(bf, b - 1, 8 * (b - 1))]

\* the received bytes parsed into a neighbor bitfield of num_pieces entries
update_bitfield_from_bytes(bf_data, num_pieces) ==
    [j \in 1 .. num_pieces |->
        LET i == j - 1
            byte_index == i \div 8
            bit_offset == 7 - (i % 8)
        IN  IF byte_index < Len(bf_data)
               /\ (bf_data[byte_index + 1] \div Pow2(bit_offset)) % 2 = 1
            THEN 1 ELSE 0]

\* the bytes of piece index as read from the file: PieceSize bytes
read_piece(bf, index) ==
    IF has_piece(bf, index) THEN [j \in 1 .. PieceSize |-> index] ELSE <<>>

\* a write_piece that opens the file with "wb": the earlier pieces are lost
write_piece_truncating(bf, index) == [j \in 1 .. Len(bf) |-> IF j = index + 1 THEN 1 ELSE 0]

\* a write_piece that reports success without setting the bit
write_piece_unrecorded(bf, index) == bf

\* write_piece on success: the bit is set and the index leaves requested_pieces
write_piece_bitfield(bf, index) == [bf EXCEPT ![index + 1] = 1]

write_piece_requested(req, index) == req \ {index}

\* write_piece when open, seek or write raises IOError: the assignments after
\* them are skipped, the bitfield and requested_pieces stay as they were
write_piece_failed(state, index) == state

----------------------------------------------------------------------------
(* PeerConnection *)

NewConnection ==
    [am_choking |-> TRUE, am_interested |-> FALSE,
     peer_choking |-> TRUE, peer_interested |-> FALSE,
     neighbor_bitfield |-> [j \in 1 .. config.num_pieces |-> 0],
     downloaded_bytes_interval |-> 0,
     is_optimistic |-> FALSE]

Frame(type, index, payload) == [type |-> type, index |-> index, payload |-> payload]

\* send_message of peer p on its sessions: out maps a neighbor to the frames
\* written to its socket, in order.  A write to the socket of a process that
\* has exited raises, and send_message swallows the error.
send_message(wire, p, out) ==
    [pr \in DOMAIN wire |->
        IF pr[1] = p /\ pr[2] \in DOMAIN out /\ running[pr[2]]
        THEN wire[pr] \o out[pr[2]] ELSE wire[pr]]

\* struct.pack('!I', v): four bytes, most significant first
pack_I(v) == <<(v \div 16777216) % 256, (v \div 65536) % 256, (v \div 256) % 256, v % 256>>

\* the bytes send_message hands to socket.sendall for frame f: the length of
\* type + payload, the type, the payload (index first where the frame has one)
pack_message(f) ==
    LET payload == (IF f.index >= 0 THEN pack_I(f.index) ELSE << >>) \o f.payload
    IN  pack_I(1 + Len(payload)) \o <<f.type>> \o payload

\* the threads of a peer that call send_message on one session: the session's
\* own message_handler, the HAVE broadcast of another session's handler, and
\* the two timers
Callers == {"handler", "have", "choke", "optimistic"}

\* the callers that hold connections_lock around send_message
LockedCallers == {"have", "choke", "optimistic"}

\* the frames each caller sends
FramesOf(t) ==
    CASE t = "handler" -> {Frame(MSG_INTERESTED, -1, << >>),
                           Frame(MSG_REQUEST, 0, << >>),
                           Frame(MSG_PIECE, 0, [j \in 1 .. PieceSize |-> 0])}
      [] t = "have" -> {Frame(MSG_HAVE, 0, << >>)}
      [] t = "choke" -> {Frame(MSG_CHOKE, -1, << >>), Frame(MSG_UNCHOKE, -1, << >>)}
      [] OTHER -> {Frame(MSG_UNCHOKE, -1, << >>)}

SockIdle == [wire |-> << >>, sending |-> [t \in Callers |-> << >>], calls |-> 0]

\* send_message up to the call of socket.sendall: the frame is packed
BeginSend(t) ==
    /\ sock.sending[t] = << >>
    /\ sock.calls < MaxFrames
    /\ t \in LockedCallers =>
          \A u \in LockedCallers \ {t} : sock.sending[u] = << >>
    /\ \E f \in FramesOf(t) :
          sock' = [sock EXCEPT !.sending[t] = pack_message(f), !.calls = @ + 1]
    /\ UNCHANGED <<cycle, shake, config, running, bitfield, requested_pieces, connections,
                   connOrder, handler, term, net>>

\* socket.sendall: the kernel takes some of the remaining bytes, the loop goes
\* on until none is left; no lock is held by send_message
SocketSend(t) ==
    /\ sock.sending[t] # << >>
    /\ \E n \in 1 .. Len(sock.sending[t]) :
          sock' = [sock EXCEPT
                     !.wire = @ \o SubSeq(sock.sending[t], 1, n),
                     !.sending[t] = SubSeq(@, n + 1, Len(@))]
    /\ UNCHANGED <<cycle, shake, config, running, bitfield, requested_pieces, connections,
                   connOrder, handler, term, net>>

\* choking_timer sleeping, outside its with self.connections_lock block
NoCycle == [pc |-> "sleep", preferred |-> {}]

\* connections_lock of p is not held by a cycle of choking_timer
LockFree(p) == cycle[p].pc = "sleep"

Idle == [pc |-> "recv", idx |-> -1, avail |-> {}, buf |-> <<>>]
At(pc) == [pc |-> pc, idx |-> -1, avail |-> {}, buf |-> <<>>]

\* the sessions of p whose setup has not finished
SettingUp == {"reg", "bf", "send"}

\* connect_to_predecessors has returned: timers and the termination loop run
Started(p) == \A q \in Peers : q < p => handler[p][q].pc \notin ({"off"} \cup SettingUp)

----------------------------------------------------------------------------
(* Handshake *)

\* b'P2PFILESHARINGPROJ'
HANDSHAKE_HEADER == <<80, 50, 80, 70, 73, 76, 69, 83, 72, 65, 82, 73, 78, 71, 80, 82, 79, 74>>

\* a 32-bit peer identifier as two 16-bit halves
Id32(hi, lo) == [hi |-> hi, lo |-> lo]

\* the None that parse_handshake_message returns for an invalid message
None == [hi |-> -1, lo |-> -1]

\* 18-byte header, 10 zero bytes, struct.pack('!I', peer_id)
create_handshake_message(peer_id) ==
    HANDSHAKE_HEADER \o [j \in 1 .. 10 |-> 0]
        \o <<peer_id.hi \div 256, peer_id.hi % 256, peer_id.lo \div 256, peer_id.lo % 256>>

\* a parser that does not compare the header
parse_handshake_message_any_header(data) ==
    IF Len(data) # 32 THEN None
    ELSE Id32(data[29] * 256 + data[30], data[31] * 256 + data[32])

parse_handshake_message(data) ==
    IF Len(data) # 32 THEN None
    ELSE IF SubSeq(data, 1, 18) # HANDSHAKE_HEADER THEN None
    ELSE Id32(data[29] * 256 + data[30], data[31] * 256 + data[32])

\* the identifiers tried: the ends and the byte borders of each half
SomeIds == {Id32(hi, lo) : hi \in {0, 1, 255, 256, 65535}, lo \in {0, 1, 255, 256, 65535}}

NoHandshake == [pc |-> "new", id |-> None, data |-> << >>, result |-> None]

\* s.sendall(create_handshake_message(self.peer_id)), read by the other side
SendHandshake ==
    /\ shake.pc = "new"
    /\ \E id \in SomeIds :
          shake' = [shake EXCEPT !.pc = "read", !.id = id,
                                 !.data = create_handshake_message(id)]
    /\ UNCHANGED <<cycle, sock, config, running, bitfield, requested_pieces, connections,
                   connOrder, handler, term, net>>

\* what a foreign client may send instead: a shorter or longer message, another
\* header, other padding
ForeignHandshake ==
    /\ shake.pc = "read"
    /\ \/ \E n \in {0, 18, 31} : shake' = [shake EXCEPT !.pc = "foreign",
                                            !.data = SubSeq(@, 1, n)]
       \/ shake' = [shake EXCEPT !.pc = "foreign", !.data = Append(@, 0)]
       \/ \E j \in 1 .. 28 : shake' = [shake EXCEPT !.pc = "foreign",
                                            !.data[j] = (@ + 1) % 256]
    /\ UNCHANGED <<cycle, sock, config, running, bitfield, requested_pieces, connections,
                   connOrder, handler, term, net>>

\* neighbor_id = parse_handshake_message(data)
ParseHandshake ==
    /\ shake.pc \in {"read", "foreign"}
    /\ shake' = [shake EXCEPT !.pc = "parsed",
                              !.result = parse_handshake_message(shake.data)]
    /\ UNCHANGED <<cycle, sock, config, running, bitfield, requested_pieces, connections,
                   connOrder, handler, term, net>>

----------------------------------------------------------------------------
(* Configurations *)

\* io_errors: the file system of the peers may refuse a write
Cfg(n, seeds, k, np) ==
    [n |-> n, hasFile |-> seeds, k |-> k, num_pieces |-> np, io_errors |-> FALSE]

FailingDisk(c) == [c EXCEPT !.io_errors = TRUE]

InitWith(c) ==
    /\ config = c
    /\ sock = SockIdle
    /\ shake = NoHandshake
    /\ cycle = [p \in 1 .. c.n |-> NoCycle]
    /\ running = [p \in 1 .. c.n |-> TRUE]
    /\ bitfield = [p \in 1 .. c.n |->
                     [j \in 1 .. c.num_pieces |-> IF p \in c.hasFile THEN 1 ELSE 0]]
    /\ requested_pieces = [p \in 1 .. c.n |-> {}]
    /\ connections = [p \in 1 .. c.n |-> << >>]
    /\ connOrder = [p \in 1 .. c.n |-> << >>]
    /\ handler = [p \in 1 .. c.n |-> [q \in (1 .. c.n) \ {p} |-> At("off")]]
    /\ term = [p \in 1 .. c.n |-> "poll"]
    /\ net = [pr \in {x \in (1 .. c.n) \X (1 .. c.n) : x[1] # x[2]} |-> << >>]

\* the state of configuration c in which every session has been set up (every
\* Handshake, Register, GetBitfield and SendBitfield step taken, sessions
\* registered in the order of the peer identifiers) and no frame has been read
Established(c) ==
    /\ config = c
    /\ sock = SockIdle
    /\ shake = NoHandshake
    /\ cycle = [p \in 1 .. c.n |-> NoCycle]
    /\ running = [p \in 1 .. c.n |-> TRUE]
    /\ bitfield = [p \in 1 .. c.n |->
                     [j \in 1 .. c.num_pieces |-> IF p \in c.hasFile THEN 1 ELSE 0]]
    /\ requested_pieces = [p \in 1 .. c.n |-> {}]
    /\ connections = [p \in 1 .. c.n |-> [q \in (1 .. c.n) \ {p} |-> NewConnection]]
    /\ connOrder = [p \in 1 .. c.n |->
                      [j \in 1 .. (c.n - 1) |-> IF j < p THEN j ELSE j + 1]]
    /\ handler = [p \in 1 .. c.n |-> [q \in (1 .. c.n) \ {p} |-> Idle]]
    /\ term = [p \in 1 .. c.n |-> "poll"]
    /\ net = [pr \in {x \in (1 .. c.n) \X (1 .. c.n) : x[1] # x[2]} |->
                 <<Frame(MSG_BITFIELD, -1, get_bitfield_bytes(bitfield[pr[1]]))>>]

----------------------------------------------------------------------------
(* Listener & dialer *)

\* connect_to_peer up to the handshake, and handle_incoming_connection up to
\* its handshake response: p dials its predecessors in order, one at a time.
\* A predecessor that has exited refuses the connection.
Handshake(p, q) ==
    /\ IsSession(p, q)
    /\ q < p
    /\ running[p]
    /\ handler[p][q].pc = "off"
    /\ \A r \in Peers : r < q => handler[p][r].pc \notin ({"off"} \cup SettingUp)
    /\ IF running[q]
       THEN handler' = [handler EXCEPT ![p][q] = At("reg"), ![q][p] = At("reg")]
       ELSE handler' = [handler EXCEPT ![p][q] = At("failed")]
    /\ UNCHANGED <<cycle, shake, sock, config, running, bitfield, requested_pieces, connections,
                   connOrder, term, net>>

\* with self.connections_lock: self.connections[neighbor_id] = connection
Register(p, q) ==
    /\ IsSession(p, q)
    /\ running[p]
    /\ LockFree(p)
    /\ handler[p][q].pc = "reg"
    /\ connections' = [connections EXCEPT ![p] = (q :> NewConnection) @@ @]
    /\ connOrder' = [connOrder EXCEPT ![p] = Append(@, q)]
    /\ handler' = [handler EXCEPT ![p][q] = At("bf")]
    /\ UNCHANGED <<cycle, shake, sock, config, running, bitfield, requested_pieces, term, net>>

\* bf_payload = self.file_manager.get_bitfield_bytes()
GetBitfield(p, q) ==
    /\ IsSession(p, q)
    /\ running[p]
    /\ handler[p][q].pc = "bf"
    /\ handler' = [handler EXCEPT ![p][q] =
                     [At("send") EXCEPT !.buf = get_bitfield_bytes(bitfield[p])]]
    /\ UNCHANGED <<cycle, shake, sock, config, running, bitfield, requested_pieces, connections,
                   connOrder, term, net>>

\* connection.send_message(MSG_BITFIELD, bf_payload); the handler thread starts
SendBitfield(p, q) ==
    /\ IsSession(p, q)
    /\ running[p]
    /\ handler[p][q].pc = "send"
    /\ net' = send_message(net, p, q :> <<Frame(MSG_BITFIELD, -1, handler[p][q].buf)>>)
    /\ handler' = [handler EXCEPT ![p][q] = Idle]
    /\ UNCHANGED <<cycle, shake, sock, config, running, bitfield, requested_pieces, connections,
                   connOrder, term>>

----------------------------------------------------------------------------
(* Message processor *)

\* some piece the neighbor has and I do not
Interesting(nb, bf) == \E j \in 1 .. Len(nb) : nb[j] = 1 /\ bf[j] # 1

\* request_piece, first half: the indices the neighbor has, I lack, and that
\* are not in requested_pieces
available_pieces(nb, bf, req) ==
    {i \in 0 .. (Len(nb) - 1) : nb[i + 1] = 1 /\ ~has_piece(bf, i) /\ i \notin req}

AfterScan(p, q, bf, req) ==
    LET avail == available_pieces(connections[p][q].neighbor_bitfield, bf, req)
    IN  IF avail = {} THEN Idle ELSE [Idle EXCEPT !.pc = "pick", !.avail = avail]

\* check_interest: NOT_INTERESTED when nothing is left to get from the neighbor
LosesInterest(c, bf) == ~Interesting(c.neighbor_bitfield, bf) /\ c.am_interested

\* process_message: one frame read by the message_handler thread of (p, q)
process_message(p, q, m, rest) ==
    LET c == connections[p][q] IN
    CASE m.type = MSG_CHOKE ->
           /\ connections' = [connections EXCEPT ![p][q].peer_choking = TRUE]
           /\ net' = rest
           /\ UNCHANGED <<handler, bitfield, requested_pieces>>
      [] m.type = MSG_UNCHOKE ->
           /\ connections' = [connections EXCEPT ![p][q].peer_choking = FALSE]
           /\ handler' = [handler EXCEPT ![p][q] =
                            AfterScan(p, q, bitfield[p], requested_pieces[p])]
           /\ net' = rest
           /\ UNCHANGED <<bitfield, requested_pieces>>
      [] m.type = MSG_INTERESTED ->
           /\ connections' = [connections EXCEPT ![p][q].peer_interested = TRUE]
           /\ net' = rest
           /\ UNCHANGED <<handler, bitfield, requested_pieces>>
      [] m.type = MSG_NOT_INTERESTED ->
           /\ connections' = [connections EXCEPT ![p][q].peer_interested = FALSE]
           /\ net' = rest
           /\ UNCHANGED <<handler, bitfield, requested_pieces>>
      [] m.type = MSG_HAVE ->
           /\ IF ~has_piece(bitfield[p], m.index)
              THEN /\ connections' = [connections EXCEPT
                          ![p][q].neighbor_bitfield[m.index + 1] = 1,
                          ![p][q].am_interested = TRUE]
                   /\ net' = send_message(rest, p, q :> <<Frame(MSG_INTERESTED, -1, <<>>)>>)
              ELSE /\ connections' = [connections EXCEPT
                          ![p][q].neighbor_bitfield[m.index + 1] = 1]
                   /\ net' = rest
           /\ UNCHANGED <<handler, bitfield, requested_pieces>>
      [] m.type = MSG_BITFIELD ->
           LET nb == update_bitfield_from_bytes(m.payload, config.num_pieces)
               interested == Interesting(nb, bitfield[p])
           IN  /\ connections' = [connections EXCEPT
                      ![p][q].neighbor_bitfield = nb,
                      ![p][q].am_interested = interested]
               /\ net' = send_message(rest, p, q :>
                            <<Frame(IF interested THEN MSG_INTERESTED
                                    ELSE MSG_NOT_INTERESTED, -1, <<>>)>>)
               /\ UNCHANGED <<handler, bitfield, requested_pieces>>
      [] m.type = MSG_REQUEST ->
           /\ IF ~c.am_choking
              THEN handler' = [handler EXCEPT ![p][q] =
                                 [Idle EXCEPT !.pc = "serve", !.idx = m.index]]
              ELSE UNCHANGED handler
           /\ net' = rest
           /\ UNCHANGED <<connections, bitfield, requested_pieces>>
      [] m.type = MSG_PIECE ->
           \/ /\ bitfield' = [bitfield EXCEPT ![p] = write_piece_bitfield(@, m.index)]
              /\ requested_pieces' = [requested_pieces EXCEPT
                                        ![p] = write_piece_requested(@, m.index)]
              /\ handler' = [handler EXCEPT ![p][q] =
                               [Idle EXCEPT !.pc = "wrote", !.idx = m.index,
                                            !.buf = m.payload]]
              /\ net' = rest
              /\ UNCHANGED connections
           \* write_piece raises IOError and returns False: nothing else is done
           \/ /\ config.io_errors
              /\ bitfield' = [bitfield EXCEPT ![p] = write_piece_failed(@, m.index)]
              /\ requested_pieces' = [requested_pieces EXCEPT
                                        ![p] = write_piece_failed(@, m.index)]
              /\ net' = rest
              /\ UNCHANGED <<connections, handler>>

\* message_handler: read one frame from the socket and process it
Receive(p, q) ==
    /\ IsSession(p, q)
    /\ running[p]
    /\ handler[p][q].pc = "recv"
    /\ net[<<q, p>>] # << >>
    /\ process_message(p, q, Head(net[<<q, p>>]),
                       [net EXCEPT ![<<q, p>>] = Tail(@)])
    /\ UNCHANGED <<cycle, shake, sock, config, running, connOrder, term>>

\* message_handler reading a frame other than HAVE
ReceiveOther(p, q) ==
    /\ IsSession(p, q)
    /\ net[<<q, p>>] # << >>
    /\ Head(net[<<q, p>>]).type # MSG_HAVE
    /\ Receive(p, q)

\* MSG_HAVE, first half: the bit of the neighbor bitfield is set and has_piece
\* is tested; the handler holds no lock
ReceiveHave(p, q) ==
    /\ IsSession(p, q)
    /\ running[p]
    /\ handler[p][q].pc = "recv"
    /\ net[<<q, p>>] # << >>
    /\ Head(net[<<q, p>>]).type = MSG_HAVE
    /\ LET index == Head(net[<<q, p>>]).index
       IN  /\ connections' = [connections EXCEPT
                  ![p][q].neighbor_bitfield[index + 1] = 1]
           /\ handler' = [handler EXCEPT ![p][q] =
                 IF ~has_piece(bitfield[p], index) THEN At("have") ELSE Idle]
    /\ net' = [net EXCEPT ![<<q, p>>] = Tail(@)]
    /\ UNCHANGED <<cycle, shake, sock, config, running, bitfield, requested_pieces,
                   connOrder, term>>

\* MSG_HAVE, second half: INTERESTED is sent and am_interested set
HaveInterested(p, q) ==
    /\ IsSession(p, q)
    /\ running[p]
    /\ handler[p][q].pc = "have"
    /\ net' = send_message(net, p, q :> <<Frame(MSG_INTERESTED, -1, <<>>)>>)
    /\ connections' = [connections EXCEPT ![p][q].am_interested = TRUE]
    /\ handler' = [handler EXCEPT ![p][q] = Idle]
    /\ UNCHANGED <<cycle, shake, sock, config, running, bitfield, requested_pieces,
                   connOrder, term>>

\* message_handler when the neighbor has closed the connection: what it sent
\* has been read, read_n_bytes raises ConnectionError, the loop is left and the
\* socket is closed
ConnectionLost(p, q) ==
    /\ IsSession(p, q)
    /\ running[p]
    /\ ~running[q]
    /\ handler[p][q].pc = "recv"
    /\ net[<<q, p>>] = << >>
    /\ handler' = [handler EXCEPT ![p][q] = At("closed")]
    /\ UNCHANGED <<cycle, shake, sock, config, running, bitfield, requested_pieces, connections,
                   connOrder, term, net>>

\* MSG_REQUEST, after the am_choking test: read the piece and send it
ServePiece(p, q) ==
    /\ IsSession(p, q)
    /\ running[p]
    /\ handler[p][q].pc = "serve"
    /\ LET index == handler[p][q].idx
           data == read_piece(bitfield[p], index)
       IN  IF data # << >>
           THEN /\ net' = send_message(net, p, q :> <<Frame(MSG_PIECE, index, data)>>)
                /\ connections' = [connections EXCEPT
                       ![p][q].downloaded_bytes_interval = @ + Len(data)]
           ELSE UNCHANGED <<net, connections>>
    /\ handler' = [handler EXCEPT ![p][q] = Idle]
    /\ UNCHANGED <<cycle, shake, sock, config, running, bitfield, requested_pieces, connOrder, term>>

\* a variant that goes on requesting whatever the neighbor's choke state
continues_requesting_choked(c) == TRUE

\* MSG_PIECE, the test before the follow-up request: `if not conn.peer_choking`
continues_requesting(c) == ~c.peer_choking

\* MSG_PIECE, after write_piece succeeded: account the bytes, broadcast HAVE and
\* re-evaluate interest on every session under connections_lock, then continue
\* requesting if still unchoked
AfterWrite(p, q) ==
    /\ IsSession(p, q)
    /\ running[p]
    /\ LockFree(p)
    /\ handler[p][q].pc = "wrote"
    /\ LET index == handler[p][q].idx
           have == Frame(MSG_HAVE, index, <<>>)
           out == [r \in DOMAIN connections[p] |->
                     IF LosesInterest(connections[p][r], bitfield[p])
                     THEN <<have, Frame(MSG_NOT_INTERESTED, -1, <<>>)>>
                     ELSE <<have>>]
       IN  /\ net' = send_message(net, p, out)
           /\ connections' = [connections EXCEPT ![p] =
                 [r \in DOMAIN @ |->
                    [@[r] EXCEPT
                       !.downloaded_bytes_interval =
                           IF r = q THEN @ + Len(handler[p][q].buf) ELSE @,
                       !.am_interested =
                           IF LosesInterest(connections[p][r], bitfield[p])
                           THEN FALSE ELSE @]]]
    /\ handler' = [handler EXCEPT ![p][q] =
                     IF continues_requesting(connections[p][q])
                     THEN AfterScan(p, q, bitfield[p], requested_pieces[p])
                     ELSE Idle]
    /\ UNCHANGED <<cycle, shake, sock, config, running, bitfield, requested_pieces, connOrder, term>>

\* request_piece, second half: random.choice, add to requested_pieces, send
request_piece(p, q) ==
    /\ IsSession(p, q)
    /\ running[p]
    /\ handler[p][q].pc = "pick"
    /\ \E idx \in handler[p][q].avail :
         /\ requested_pieces' = [requested_pieces EXCEPT ![p] = @ \cup {idx}]
         /\ net' = send_message(net, p, q :> <<Frame(MSG_REQUEST, idx, <<>>)>>)
    /\ handler' = [handler EXCEPT ![p][q] = Idle]
    /\ UNCHANGED <<cycle, shake, sock, config, running, bitfield, connections, connOrder, term>>

----------------------------------------------------------------------------
(* Unchoke scheduler *)

\* A timer cycle runs when the frames p sent earlier have been read: fewer than
\* MaxQueue frames are waiting on each of its sockets (the intervals are seconds,
\* a frame is read in milliseconds); this bounds the queues.
SendBufferFree(p) == \A q \in Peers \ {p} : Len(net[<<p, q>>]) < MaxQueue

Interested(p) == {q \in DOMAIN connections[p] : connections[p][q].peer_interested}

Position(p, q) == CHOOSE j \in 1 .. Len(connOrder[p]) : connOrder[p][j] = q

\* list.sort(key=downloaded_bytes_interval, reverse=True) is stable: sessions
\* with equal counts keep the order of self.connections
SortsBefore(p, a, b) ==
    LET ca == connections[p][a].downloaded_bytes_interval
        cb == connections[p][b].downloaded_bytes_interval
    IN  ca > cb \/ (ca = cb /\ Position(p, a) < Position(p, b))

\* the possible values of preferred: interested_neighbors[:k] after the shuffle
\* (complete file) or after the sort (otherwise)
PreferredChoices(p) ==
    LET I == Interested(p)
        k == config.k
    IN  IF has_complete_file(bitfield[p])
        THEN {S \in SUBSET I : Cardinality(S) = IF Cardinality(I) < k
                                                THEN Cardinality(I) ELSE k}
        ELSE {{c \in I : Cardinality({d \in I : SortsBefore(p, d, c)}) < k}}

\* the choke / unchoke decision of choking_timer for session c
ApplyChoke(c, isPreferred) ==
    [c EXCEPT !.am_choking = IF isPreferred THEN FALSE
                             ELSE IF ~c.am_choking /\ ~c.is_optimistic THEN TRUE
                             ELSE @,
              !.downloaded_bytes_interval = 0]

\* a variant that sends UNCHOKE to every preferred session, unchoked or not
ChokeFrames_repeating(c, isPreferred) ==
    IF isPreferred THEN <<Frame(MSG_UNCHOKE, -1, <<>>)>>
    ELSE IF ~c.am_choking /\ ~c.is_optimistic
         THEN <<Frame(MSG_CHOKE, -1, <<>>)>>
         ELSE << >>

\* the frame choking_timer sends with its decision for session c
ChokeFrames(c, isPreferred) ==
    IF isPreferred /\ c.am_choking THEN <<Frame(MSG_UNCHOKE, -1, <<>>)>>
    ELSE IF ~isPreferred /\ ~c.am_choking /\ ~c.is_optimistic
         THEN <<Frame(MSG_CHOKE, -1, <<>>)>>
         ELSE << >>

\* one cycle of choking_timer, under connections_lock
choking_timer(p) ==
    /\ p \in Peers
    /\ running[p]
    /\ LockFree(p)
    /\ Started(p)
    /\ SendBufferFree(p)
    /\ IF Interested(p) = {}
       THEN UNCHANGED <<connections, net>>
       ELSE \E preferred \in PreferredChoices(p) :
              /\ connections' = [connections EXCEPT ![p] =
                    [q \in DOMAIN @ |-> ApplyChoke(@[q], q \in preferred)]]
              /\ net' = send_message(net, p,
                    [q \in DOMAIN connections[p] |->
                        ChokeFrames(connections[p][q], q \in preferred)])
    /\ UNCHANGED <<cycle, shake, sock, config, running, bitfield, requested_pieces, connOrder,
                   handler, term>>

\* choking_timer, first half of a cycle: under connections_lock, the
\* interested neighbors are listed and the preferred ones chosen
choking_timer_select(p) ==
    /\ p \in Peers
    /\ running[p]
    /\ LockFree(p)
    /\ Started(p)
    /\ SendBufferFree(p)
    /\ Interested(p) # {}
    /\ \E preferred \in PreferredChoices(p) :
          cycle' = [cycle EXCEPT ![p] = [pc |-> "apply", preferred |-> preferred]]
    /\ UNCHANGED <<shake, sock, config, running, bitfield, requested_pieces,
                   connections, connOrder, handler, term, net>>

\* choking_timer, second half: the loop that chokes, unchokes and resets the
\* counters; the lock is released at its end
choking_timer_apply(p) ==
    /\ p \in Peers
    /\ running[p]
    /\ cycle[p].pc = "apply"
    /\ connections' = [connections EXCEPT ![p] =
          [q \in DOMAIN @ |-> ApplyChoke(@[q], q \in cycle[p].preferred)]]
    /\ net' = send_message(net, p,
          [q \in DOMAIN connections[p] |->
              ChokeFrames(connections[p][q], q \in cycle[p].preferred)])
    /\ cycle' = [cycle EXCEPT ![p] = NoCycle]
    /\ UNCHANGED <<shake, sock, config, running, bitfield, requested_pieces,
                   connOrder, handler, term>>

\* a variant that draws the optimistic choice from all the sessions
OptimisticCandidates_all(p) == DOMAIN connections[p]

\* candidates: the sessions that are choked and interested
OptimisticCandidates(p) ==
    {q \in DOMAIN connections[p] :
        connections[p][q].am_choking /\ connections[p][q].peer_interested}

\* one cycle of optimistic_unchoking_timer, under connections_lock
optimistic_unchoking_timer(p) ==
    /\ p \in Peers
    /\ running[p]
    /\ LockFree(p)
    /\ Started(p)
    /\ SendBufferFree(p)
    /\ IF OptimisticCandidates(p) = {}
       THEN UNCHANGED <<connections, net>>
       ELSE \E chosen \in OptimisticCandidates(p) :
              /\ connections' = [connections EXCEPT ![p] =
                    [q \in DOMAIN @ |->
                        IF q = chosen
                        THEN [@[q] EXCEPT !.is_optimistic = TRUE, !.am_choking = FALSE]
                        ELSE [@[q] EXCEPT !.is_optimistic = FALSE]]]
              /\ net' = send_message(net, p, chosen :> <<Frame(MSG_UNCHOKE, -1, <<>>)>>)
    /\ UNCHANGED <<cycle, shake, sock, config, running, bitfield, requested_pieces, connOrder,
                   handler, term>>

----------------------------------------------------------------------------
(* Termination detector *)

\* the loop over self.connections under connections_lock
all_neighbors_done(p) ==
    \A q \in DOMAIN connections[p] :
        has_complete_file(connections[p][q].neighbor_bitfield)

\* termination_check_loop, first half: local completion and the neighbors' bitfields
TerminationScan(p) ==
    /\ p \in Peers
    /\ running[p]
    /\ LockFree(p)
    /\ Started(p)
    /\ term[p] = "poll"
    /\ has_complete_file(bitfield[p])
    /\ all_neighbors_done(p)
    /\ term' = [term EXCEPT ![p] = "decide"]
    /\ UNCHANGED <<cycle, shake, sock, config, running, bitfield, requested_pieces, connections,
                   connOrder, handler, net>>

AllConnected(p) == Cardinality(DOMAIN connections[p]) = config.n - 1

\* termination_check_loop, second half: the test of len(self.connections), then
\* running = False, every socket closed, sys.exit(0): all threads of p end and
\* what p had not read is discarded
TerminationDecide(p) ==
    /\ p \in Peers
    /\ running[p]
    /\ term[p] = "decide"
    /\ IF AllConnected(p)
       THEN /\ running' = [running EXCEPT ![p] = FALSE]
            /\ term' = [term EXCEPT ![p] = "exited"]
            /\ handler' = [handler EXCEPT ![p] = [q \in DOMAIN @ |-> At("dead")]]
            /\ net' = [pr \in DOMAIN net |-> IF pr[2] = p THEN << >> ELSE net[pr]]
       ELSE /\ term' = [term EXCEPT ![p] = "poll"]
            /\ UNCHANGED <<running, handler, net>>
    /\ UNCHANGED <<cycle, shake, sock, config, bitfield, requested_pieces, connections, connOrder>>

----------------------------------------------------------------------------
(* Specifications *)

Next ==
    \/ \E p \in PeerIds : \E q \in PeerIds :
         \/ Handshake(p, q)
         \/ Register(p, q)
         \/ GetBitfield(p, q)
         \/ SendBitfield(p, q)
         \/ Receive(p, q)
         \/ ConnectionLost(p, q)
         \/ ServePiece(p, q)
         \/ AfterWrite(p, q)
         \/ request_piece(p, q)
    \/ \E p \in PeerIds :
         \/ choking_timer(p)
         \/ optimistic_unchoking_timer(p)
         \/ TerminationScan(p)
         \/ TerminationDecide(p)

\* two peers: any file of at most MaxPieces pieces, held by any of them
PairConfigs ==
    LET sound == {Cfg(2, seeds, 1, np) : seeds \in SUBSET {1, 2}, np \in 0 .. MaxPieces}
    IN  sound \cup {FailingDisk(c) : c \in sound}
\* Scenario 1: seeder then leecher, a 1-piece file
Scenario1 == Cfg(2, {1}, 1, 1)
\* Scenario 2: A, B, C in line order, only A has the file, k = 1
Scenario2 == Cfg(3, {1}, 1, TriplePieces)
\* a leecher between two seeders
TwoSeeders == Cfg(3, {1, 3}, 1, TriplePieces)

Init == \E c \in PairConfigs : InitWith(c)

Spec == Init /\ [][Next]_vars

Init3 == InitWith(TwoSeeders)

Spec3 == Init3 /\ [][Next]_vars

\* the steps of the sessions, timers and termination detectors: every step
\* that is possible once the sessions are set up
NextRun ==
    \/ \E p \in PeerIds : \E q \in PeerIds :
         \/ Receive(p, q)
         \/ ConnectionLost(p, q)
         \/ ServePiece(p, q)
         \/ AfterWrite(p, q)
         \/ request_piece(p, q)
    \/ \E p \in PeerIds :
         \/ choking_timer(p)
         \/ optimistic_unchoking_timer(p)
         \/ TerminationScan(p)
         \/ TerminationDecide(p)

\* Scenario 2 from the state in which the sessions are set up
Init2 == Established(Scenario2)

Spec2 == Init2 /\ [][NextRun]_vars

\* every session, timer and terminator thread that can take a step eventually does
FairnessRun ==
    /\ \A p \in PeerIds : \A q \in PeerIds :
         /\ WF_vars(Receive(p, q))
         /\ WF_vars(ConnectionLost(p, q))
         /\ WF_vars(ServePiece(p, q))
         /\ WF_vars(AfterWrite(p, q))
         /\ WF_vars(request_piece(p, q))
    /\ \A p \in PeerIds :
         /\ WF_vars(choking_timer(p))
         /\ WF_vars(optimistic_unchoking_timer(p))
         /\ WF_vars(TerminationScan(p))
         /\ WF_vars(TerminationDecide(p))

FairSpec2 == Init2 /\ [][NextRun]_vars /\ FairnessRun

\* every thread that can take a step eventually takes one
Fairness ==
    /\ \A p \in PeerIds : \A q \in PeerIds :
         /\ WF_vars(Handshake(p, q))
         /\ WF_vars(Register(p, q))
         /\ WF_vars(GetBitfield(p, q))
         /\ WF_vars(SendBitfield(p, q))
         /\ WF_vars(Receive(p, q))
         /\ WF_vars(ConnectionLost(p, q))
         /\ WF_vars(ServePiece(p, q))
         /\ WF_vars(AfterWrite(p, q))
         /\ WF_vars(request_piece(p, q))
    /\ \A p \in PeerIds :
         /\ WF_vars(choking_timer(p))
         /\ WF_vars(optimistic_unchoking_timer(p))
         /\ WF_vars(TerminationScan(p))
         /\ WF_vars(TerminationDecide(p))

Init1 == InitWith(Scenario1)

FairSpec1 == Init1 /\ [][Next]_vars /\ Fairness

\* the state of configuration c in which, in addition, every BITFIELD and the
\* INTERESTED or NOT_INTERESTED answering it have been read
Settled(c) ==
    /\ config = c
    /\ sock = SockIdle
    /\ shake = NoHandshake
    /\ cycle = [p \in 1 .. c.n |-> NoCycle]
    /\ running = [p \in 1 .. c.n |-> TRUE]
    /\ bitfield = [p \in 1 .. c.n |->
                     [j \in 1 .. c.num_pieces |-> IF p \in c.hasFile THEN 1 ELSE 0]]
    /\ requested_pieces = [p \in 1 .. c.n |-> {}]
    /\ connections = [p \in 1 .. c.n |-> [q \in (1 .. c.n) \ {p} |->
           [NewConnection EXCEPT
              !.neighbor_bitfield = bitfield[q],
              !.am_interested = Interesting(bitfield[q], bitfield[p]),
              !.peer_interested = Interesting(bitfield[p], bitfield[q])]]]
    /\ connOrder = [p \in 1 .. c.n |->
                      [j \in 1 .. (c.n - 1) |-> IF j < p THEN j ELSE j + 1]]
    /\ handler = [p \in 1 .. c.n |-> [q \in (1 .. c.n) \ {p} |-> Idle]]
    /\ term = [p \in 1 .. c.n |-> "poll"]
    /\ net = [pr \in {x \in (1 .. c.n) \X (1 .. c.n) : x[1] # x[2]} |-> << >>]

\* one seeder and three leechers, k = 1
OneSeeder == Cfg(4, {1}, 1, TriplePieces)

\* the unchoke schedulers and the threads that read what they send
NextChoke ==
    \/ \E p \in PeerIds : \E q \in PeerIds :
         \/ Receive(p, q)
         \/ request_piece(p, q)
    \/ \E p \in PeerIds :
         \/ choking_timer(p)
         \/ optimistic_unchoking_timer(p)

InitChoke == Settled(OneSeeder)

SpecChoke == InitChoke /\ [][NextChoke]_vars

\* the threads of one peer sending on one session: only the socket changes
NextSend == \E t \in Callers : BeginSend(t) \/ SocketSend(t)

SpecSend == Init1 /\ [][NextSend]_vars

\* three peers and an empty file (FileSize 0)
EmptyFile == Cfg(3, {1}, 1, 0)

\* the two-peer configurations and the three-peer one with the empty file
InitEmpty == Init \/ InitWith(EmptyFile)

SpecEmpty == InitEmpty /\ [][Next]_vars

\* a peer that holds the first piece only, two leechers that hold nothing
\* and a seeder, the BITFIELD, HAVE and INTERESTED frames read, and cnt[q] bytes
\* counted on the session of peer 1 with q since the last cycle of choking_timer
RateState(k, cnt) ==
    LET c == Cfg(4, {4}, k, MaxPieces) IN
    /\ config = c
    /\ sock = SockIdle
    /\ shake = NoHandshake
    /\ cycle = [p \in 1 .. c.n |-> NoCycle]
    /\ running = [p \in 1 .. c.n |-> TRUE]
    /\ bitfield = [p \in 1 .. c.n |->
                     [j \in 1 .. c.num_pieces |->
                         IF p \in c.hasFile \/ (p = 1 /\ j = 1) THEN 1 ELSE 0]]
    /\ requested_pieces = [p \in 1 .. c.n |-> {}]
    /\ connections = [p \in 1 .. c.n |-> [q \in (1 .. c.n) \ {p} |->
           [NewConnection EXCEPT
              !.neighbor_bitfield = bitfield[q],
              !.am_interested = Interesting(bitfield[q], bitfield[p]),
              !.peer_interested = Interesting(bitfield[p], bitfield[q]),
              !.downloaded_bytes_interval = IF p = 1 THEN cnt[q] ELSE 0]]]
    /\ connOrder = [p \in 1 .. c.n |->
                      [j \in 1 .. (c.n - 1) |-> IF j < p THEN j ELSE j + 1]]
    /\ handler = [p \in 1 .. c.n |-> [q \in (1 .. c.n) \ {p} |-> Idle]]
    /\ term = [p \in 1 .. c.n |-> "poll"]
    /\ net = [pr \in {x \in (1 .. c.n) \X (1 .. c.n) : x[1] # x[2]} |-> << >>]

InitRate == \E k \in 1 .. 2 : \E cnt \in [2 .. 4 -> 0 .. MaxBytes] : RateState(k, cnt)

\* cycles of choking_timer and the reading of the frames they send
NextRate ==
    \/ \E p \in PeerIds : \E q \in PeerIds : Receive(p, q)
    \/ \E p \in PeerIds : choking_timer(p)

SpecRate == InitRate /\ [][NextRate]_vars

\* two peers whose session is registered on both sides and whose BITFIELD is
\* about to be packed; peer 1 holds the pieces of held, peer 2 none
BitfieldState(held) ==
    LET c == Cfg(2, {}, 1, Len(held)) IN
    /\ config = c
    /\ sock = SockIdle
    /\ shake = NoHandshake
    /\ cycle = [p \in 1 .. c.n |-> NoCycle]
    /\ running = [p \in 1 .. c.n |-> TRUE]
    /\ bitfield = [p \in 1 .. c.n |->
                     IF p = 1 THEN held ELSE [j \in 1 .. c.num_pieces |-> 0]]
    /\ requested_pieces = [p \in 1 .. c.n |-> {}]
    /\ connections = [p \in 1 .. c.n |-> [q \in (1 .. c.n) \ {p} |-> NewConnection]]
    /\ connOrder = [p \in 1 .. c.n |-> [j \in 1 .. 1 |-> IF p = 1 THEN 2 ELSE 1]]
    /\ handler = [p \in 1 .. c.n |-> [q \in (1 .. c.n) \ {p} |-> At("bf")]]
    /\ term = [p \in 1 .. c.n |-> "poll"]
    /\ net = [pr \in {x \in (1 .. c.n) \X (1 .. c.n) : x[1] # x[2]} |-> << >>]

InitBitfield == \E np \in 0 .. MaxBits : \E held \in [1 .. np -> {0, 1}] : BitfieldState(held)

\* the BITFIELD exchange: packing, sending, reading and answering
NextBitfield ==
    \E p \in PeerIds : \E q \in PeerIds :
        \/ GetBitfield(p, q)
        \/ SendBitfield(p, q)
        \/ Receive(p, q)

SpecBitfield == InitBitfield /\ [][NextBitfield]_vars

\* one handshake message made, read and parsed
NextHandshake == SendHandshake \/ ForeignHandshake \/ ParseHandshake

SpecHandshake == Init1 /\ [][NextHandshake]_vars

\* every thread of every peer, a cycle of choking_timer taken in its two halves
NextCycle ==
    \/ \E p \in PeerIds : \E q \in PeerIds :
         \/ Handshake(p, q)
         \/ Register(p, q)
         \/ GetBitfield(p, q)
         \/ SendBitfield(p, q)
         \/ Receive(p, q)
         \/ ConnectionLost(p, q)
         \/ ServePiece(p, q)
         \/ AfterWrite(p, q)
         \/ request_piece(p, q)
    \/ \E p \in PeerIds :
         \/ choking_timer_select(p)
         \/ choking_timer_apply(p)
         \/ optimistic_unchoking_timer(p)
         \/ TerminationScan(p)
         \/ TerminationDecide(p)

SpecCycle == Init1 /\ [][NextCycle]_vars

----------------------------------------------------------------------------
(* Claims *)

\* the step in which the handler of some session of p writes piece i
WritesPiece(p, i) ==
    \E q \in Peers \ {p} :
        /\ handler[p][q].pc = "recv"
        /\ handler'[p][q].pc = "wrote"
        /\ handler'[p][q].idx = i

\* C7: a set bit of the local bitmap never becomes unset: a seeder's bits are
\* all set from the start, and a bit changes only from 0 to 1 and only in the
\* step that runs write_piece for that index.
C7_LocalBitmapMonotone ==
    /\ \A p \in Peers : p \in config.hasFile => has_complete_file(bitfield[p])
    /\ [][\A p \in Peers : \A j \in 1 .. config.num_pieces :
            /\ bitfield[p][j] = 1 => bitfield'[p][j] = 1
            /\ bitfield'[p][j] # bitfield[p][j] => WritesPiece(p, j - 1)]_vars

\* a leecher holds one piece and lacks another: a write has happened
C7_Witness ==
    \E p \in Peers : /\ p \notin config.hasFile
                     /\ \E j \in 1 .. config.num_pieces : bitfield[p][j] = 1
                     /\ \E j \in 1 .. config.num_pieces : bitfield[p][j] = 0

\* C8: a peer takes the shutdown step only when its own bitmap is full, it has
\* membership size - 1 sessions and the neighbor bitmap of every session is
\* full; so when a peer exits every configured peer holds the complete file.
C8_TerminationSafety ==
    [][\A p \in Peers :
          (running[p] /\ ~running'[p]) =>
              /\ has_complete_file(bitfield[p])
              /\ AllConnected(p)
              /\ all_neighbors_done(p)
              /\ \A q \in Peers : has_complete_file(bitfield[q])]_vars

\* C9: Scenario 1.  The seeder unchokes the leecher only once the leecher has
\* processed the BITFIELD and declared interest, the leecher requests and gets
\* piece 0 only while unchoked, and on every fair execution both processes
\* eventually exit with the leecher holding the file.
C9_Scenario1 ==
    /\ [](\A q \in DOMAIN connections[1] :
            ~connections[1][q].am_choking =>
                /\ 1 \in DOMAIN connections[2]
                /\ has_complete_file(connections[2][1].neighbor_bitfield))
    /\ []((requested_pieces[2] # {} \/ has_complete_file(bitfield[2])) =>
            /\ 2 \in DOMAIN connections[1]
            /\ ~connections[1][2].am_choking)
    /\ <>(~running[1] /\ ~running[2] /\ has_complete_file(bitfield[2]))

\* the step in which the handler of session (p, q) sends the PIECE it was asked for
SendsPiece(p, q) ==
    /\ handler[p][q].pc = "serve"
    /\ handler'[p][q].pc = "recv"
    /\ connections'[p][q].downloaded_bytes_interval
         > connections[p][q].downloaded_bytes_interval

\* C4: a PIECE frame is never sent on a session at a moment when the session's
\* am_choking flag is true.
C4_NoPieceWhileChoking ==
    [][\A p \in Peers : \A q \in Peers \ {p} :
          SendsPiece(p, q) => ~connections[p][q].am_choking]_vars

\* C1: Scenario 2.  On every fair execution a piece that a peer has requested
\* and does not hold yet is eventually written (no index stays in
\* requested_pieces forever), so that B and C end up holding every piece.
C1_Scenario2Completes ==
    \A p \in 1 .. Scenario2.n : \A i \in 0 .. (TriplePieces - 1) :
        (i \in requested_pieces[p] /\ ~has_piece(bitfield[p], i))
            ~> has_piece(bitfield[p], i)

\* the step in which the handler of session (p, q) makes its choice in
\* request_piece and sends the REQUEST
SendsRequest(p, q) ==
    /\ handler[p][q].pc = "pick"
    /\ handler'[p][q].pc = "recv"

\* C2: a peer never sends REQUEST(i) while i is already in its
\* outstanding-request set: every REQUEST step adds a new index to
\* requested_pieces.
C2_OneRequestPerIndex ==
    [][\A p \in Peers : \A q \in Peers \ {p} :
          SendsRequest(p, q) => requested_pieces'[p] # requested_pieces[p]]_vars

\* C3: in every reachable state the outstanding-request set of a peer is
\* disjoint from the set of pieces it holds.
C3_RequestedDisjointFromHeld ==
    \A p \in Peers : \A i \in requested_pieces[p] : ~has_piece(bitfield[p], i)

\* C6: on every session a bit of the neighbor bitmap that is set never becomes
\* unset.
C6_NeighborBitmapMonotone ==
    [][\A p \in Peers : \A q \in DOMAIN connections[p] :
          \A j \in 1 .. config.num_pieces :
              connections[p][q].neighbor_bitfield[j] = 1 =>
                  connections'[p][q].neighbor_bitfield[j] = 1]_vars

\* the sessions of p it is not choking
Unchoked(p) == {q \in DOMAIN connections[p] : ~connections[p][q].am_choking}

\* C5: in every reachable state of a peer the number of sessions with
\* am_choking = false is at most k + 1.
C5_AtMostKPlusOneUnchoked ==
    \A p \in Peers : Cardinality(Unchoked(p)) <= config.k + 1

\* the byte strings of whole frames
WholeFrames == {pack_message(f) : f \in UNION {FramesOf(t) : t \in Callers}}

IsPrefix(a, b) == Len(a) <= Len(b) /\ SubSeq(b, 1, Len(a)) = a

\* w is a concatenation of whole frames followed by at most the beginning of one
RECURSIVE FrameStream(_)
FrameStream(w) ==
    \/ \E f \in WholeFrames : IsPrefix(w, f)
    \/ \E f \in WholeFrames :
          /\ IsPrefix(f, w)
          /\ FrameStream(SubSeq(w, Len(f) + 1, Len(w)))

\* C10: the byte stream written to a session's transport is always a
\* concatenation of whole frames (the last one possibly still being written),
\* never bytes of one frame interleaved with another.
C10_SendsSerialized == FrameStream(sock.wire)

\* the step in which the handler of session (p, q) reads PIECE(i) and
\* write_piece fails
WriteFails(p, q, i) ==
    /\ handler[p][q].pc = "recv"
    /\ net[<<q, p>>] # << >>
    /\ Head(net[<<q, p>>]).type = MSG_PIECE
    /\ Head(net[<<q, p>>]).index = i
    /\ net'[<<q, p>>] = Tail(net[<<q, p>>])
    /\ handler'[p][q].pc = "recv"

\* C11: when write_piece(i) fails, the bit of i stays 0 and i is again a
\* candidate of request selection on every session whose neighbor bitmap has
\* i: it is not left in requested_pieces.
C11_FailedWriteRequestable ==
    [][\A p \in Peers : \A q \in Peers \ {p} : \A i \in 0 .. (config.num_pieces - 1) :
          (WriteFails(p, q, i) /\ ~has_piece(bitfield[p], i)) =>
              /\ ~has_piece(bitfield'[p], i)
              /\ \A r \in DOMAIN connections'[p] :
                    has_piece(connections'[p][r].neighbor_bitfield, i) =>
                        i \in available_pieces(connections'[p][r].neighbor_bitfield,
                                               bitfield'[p], requested_pieces'[p])]_vars

\* the step in which the handler of session (p, q) finds the connection closed
ClosesSession(p, q) ==
    /\ handler[p][q].pc = "recv"
    /\ handler'[p][q].pc = "closed"

\* C12: when the transport of an established session fails or reaches
\* end-of-stream, the session is closed and removed from the registry of
\* sessions, and the peer keeps running.
C12_LostSessionRemoved ==
    [][\A p \in Peers : \A q \in Peers \ {p} :
          ClosesSession(p, q) => running'[p] /\ q \notin DOMAIN connections'[p]]_vars

\* no REQUEST or PIECE frame is in flight and nothing is requested
NoPieceTraffic ==
    /\ \A pr \in DOMAIN net : \A j \in 1 .. Len(net[pr]) :
          net[pr][j].type \notin {MSG_REQUEST, MSG_PIECE}
    /\ \A p \in Peers : requested_pieces[p] = {}

\* C13: with num_pieces = 0 the bitmap of every peer is empty and counts as
\* complete, and the termination detector of a peer shuts it down at the first
\* poll that finds membership size - 1 registered sessions, and at no earlier
\* one, without any piece traffic.
C13_EmptyFileTerminates ==
    /\ [](config.num_pieces = 0 =>
            /\ NoPieceTraffic
            /\ \A p \in Peers : /\ bitfield[p] = << >>
                                /\ has_complete_file(bitfield[p])
                                /\ all_neighbors_done(p))
    /\ [][config.num_pieces = 0 =>
            \A p \in Peers :
               /\ (term[p] = "decide" /\ term'[p] # "decide" /\ AllConnected(p))
                     => ~running'[p]
               /\ (running[p] /\ ~running'[p]) => AllConnected(p)]_vars

\* a peer has exited although no piece exists
C13_Witness == config.num_pieces = 0 /\ \E p \in Peers : ~running[p]

\* the sets of min(k, number of interested sessions) interested sessions of p
\* such that no interested session left out has counted more bytes than a
\* chosen one
RateChoices(p) ==
    LET I == Interested(p)
        m == IF Cardinality(I) < config.k THEN Cardinality(I) ELSE config.k
    IN  {S \in SUBSET I :
            /\ Cardinality(S) = m
            /\ \A c \in S : \A d \in I \ S :
                  connections[p][d].downloaded_bytes_interval
                     <= connections[p][c].downloaded_bytes_interval}

\* C14: when the peer does not hold the full file, the preferred sets a cycle
\* can choose are exactly the sets of min(k, interested) interested sessions
\* with the largest byte counts: every session tied at the cut-off can be chosen.
C14_RateSelection ==
    \A p \in Peers :
        (~has_complete_file(bitfield[p]) /\ Interested(p) # {}) =>
            PreferredChoices(p) = RateChoices(p)

\* p has read the BITFIELD that q sent on their session
BitfieldRead(p, q) ==
    /\ handler[q][p].pc = "recv"
    /\ \A j \in 1 .. Len(net[<<q, p>>]) : net[<<q, p>>][j].type # MSG_BITFIELD

\* C15: update_bitfield_from_bytes(get_bitfield_bytes()) gives back the local
\* bitfield exactly, for every num_pieces: the neighbor bitmap a peer decodes from
\* the BITFIELD frame is the bitfield of the sender.
C15_BitfieldRoundTrip ==
    /\ \A p \in Peers :
          update_bitfield_from_bytes(get_bitfield_bytes(bitfield[p]),
                                     config.num_pieces) = bitfield[p]
    /\ \A p \in Peers : \A q \in Peers \ {p} :
          BitfieldRead(p, q) => connections[p][q].neighbor_bitfield = bitfield[q]

\* a bitfield longer than one byte and not a multiple of 8, with bits of both
\* values in its last byte, has been sent and decoded
C15_Witness ==
    /\ config.num_pieces > 8
    /\ config.num_pieces % 8 # 0
    /\ bitfield[1][config.num_pieces] = 1
    /\ \E j \in 1 .. config.num_pieces : bitfield[1][j] = 0
    /\ BitfieldRead(2, 1)
    /\ connections[2][1].neighbor_bitfield = bitfield[1]

\* C16: create_handshake_message(id) is exactly 32 bytes and
\* parse_handshake_message of it returns id; parse_handshake_message returns
\* None for an input whose length is not 32 or whose first 18 bytes are not
\* the header.
C16_HandshakeRoundTrip ==
    /\ \A id \in SomeIds :
          /\ Len(create_handshake_message(id)) = 32
          /\ parse_handshake_message(create_handshake_message(id)) = id
    /\ shake.pc = "parsed" =>
          /\ shake.data = create_handshake_message(shake.id) => shake.result = shake.id
          /\ (Len(shake.data) # 32 \/ SubSeq(shake.data, 1, 18) # HANDSHAKE_HEADER)
                => shake.result = None

\* the handshake of the largest identifier was parsed, and so was a message
\* with a wrong header byte
C16_Witness ==
    /\ shake.pc = "parsed"
    /\ shake.id = Id32(65535, 65535)
    /\ \/ shake.result = shake.id
       \/ Len(shake.data) = 32 /\ shake.data[18] # HANDSHAKE_HEADER[18]

\* a frame is sent to q on a session of p whose BITFIELD has not been sent
SendsBeforeBitfield(p, q) ==
    /\ handler[p][q].pc \in {"bf", "send"}
    /\ Len(net'[<<p, q>>]) > Len(net[<<p, q>>])
    /\ net'[<<p, q>>][Len(net[<<p, q>>]) + 1].type # MSG_BITFIELD

\* C17: on every session the first frame a peer sends after registering the
\* session is its BITFIELD: no frame of a broadcast or of a timer cycle is
\* sent on the session before it.
C17_BitfieldFirst ==
    [][\A p \in Peers : \A q \in Peers \ {p} : ~SendsBeforeBitfield(p, q)]_vars

\* the flags and the neighbor bitmap of a session that message processors set
SessionFlags(c) ==
    <<c.peer_interested, c.peer_choking, c.am_interested, c.neighbor_bitfield>>

\* C18: while a cycle of the preferred-neighbor timer holds the registry lock,
\* no message processor changes the flags or the neighbor bitmap of a session:
\* what the cycle has read stays valid until the cycle ends.
C18_NoChangeDuringCycle ==
    [][\A p \in Peers :
          (cycle[p].pc = "apply" /\ cycle'[p].pc = "apply") =>
              \A q \in DOMAIN connections[p] :
                  SessionFlags(connections'[p][q]) = SessionFlags(connections[p][q])]_vars

\* a cycle of choking_timer can run at p
CycleCanRun(p) ==
    p \in Peers /\ running[p] /\ LockFree(p) /\ Started(p) /\ SendBufferFree(p)

\* the possible outcomes of a cycle of choking_timer at p: the preferred set
\* chosen and the sessions as the cycle leaves them; with no interested
\* neighbor the cycle chooses nobody and leaves the sessions as they are
CycleOutcomes(p) ==
    IF Interested(p) = {}
    THEN {[preferred |-> {}, sessions |-> connections[p]]}
    ELSE {[preferred |-> pref,
           sessions |-> [q \in DOMAIN connections[p] |->
                            ApplyChoke(connections[p][q], q \in pref)]] :
             pref \in PreferredChoices(p)}

\* C19: at the end of every cycle of the preferred-neighbor timer, the cycles
\* that find no interested session included, every session with am_choking =
\* false is in the preferred set of the cycle or has is_optimistic = true.
C19_UnchokedArePreferred ==
    \A p \in PeerIds :
        CycleCanRun(p) =>
            \A o \in CycleOutcomes(p) : \A q \in DOMAIN o.sessions :
                ~o.sessions[q].am_choking =>
                    q \in o.preferred \/ o.sessions[q].is_optimistic

\* C20: at the end of every cycle of the preferred-neighbor timer the byte
\* counter of every registered session is 0, whether or not a session was
\* interested.
C20_CountersReset ==
    \A p \in PeerIds :
        CycleCanRun(p) =>
            \A o \in CycleOutcomes(p) : \A q \in DOMAIN o.sessions :
                o.sessions[q].downloaded_bytes_interval = 0

\* three peers and a file of MaxPieces pieces: seeder 1, peer 2 that has
\* fetched and announced the piece held, peer 3 that holds nothing; every frame
\* sent so far has been read, and the seeder has just unchoked peer u, whose
\* handler is about to choose the piece to request
HaveState(u, held) ==
    LET c == Cfg(3, {1}, 1, MaxPieces) IN
    /\ config = c
    /\ sock = SockIdle
    /\ shake = NoHandshake
    /\ cycle = [p \in 1 .. c.n |-> NoCycle]
    /\ running = [p \in 1 .. c.n |-> TRUE]
    /\ bitfield = [p \in 1 .. c.n |->
                     [j \in 1 .. c.num_pieces |->
                         IF p \in c.hasFile \/ (p = 2 /\ j = held + 1) THEN 1 ELSE 0]]
    /\ requested_pieces = [p \in 1 .. c.n |-> {}]
    /\ connections = [p \in 1 .. c.n |-> [q \in (1 .. c.n) \ {p} |->
           [NewConnection EXCEPT
              !.neighbor_bitfield = bitfield[q],
              !.am_interested = Interesting(bitfield[q], bitfield[p]),
              !.peer_interested = Interesting(bitfield[p], bitfield[q]),
              !.am_choking = ~(p = 1 /\ q = u),
              !.peer_choking = ~(p = u /\ q = 1)]]]
    /\ connOrder = [p \in 1 .. c.n |->
                      [j \in 1 .. (c.n - 1) |-> IF j < p THEN j ELSE j + 1]]
    /\ handler = [p \in 1 .. c.n |-> [q \in (1 .. c.n) \ {p} |->
                     IF p = u /\ q = 1
                     THEN [Idle EXCEPT !.pc = "pick",
                                       !.avail = available_pieces(bitfield[1],
                                                                  bitfield[u], {})]
                     ELSE Idle]]
    /\ term = [p \in 1 .. c.n |-> "poll"]
    /\ net = [pr \in {x \in (1 .. c.n) \X (1 .. c.n) : x[1] # x[2]} |-> << >>]

InitHave == \E u \in 2 .. 3 : \E held \in 0 .. (MaxPieces - 1) : HaveState(u, held)

\* the message handlers: the threads that move pieces and announce them
NextTransfer ==
    \E p \in PeerIds : \E q \in PeerIds :
         \/ Receive(p, q)
         \/ ServePiece(p, q)
         \/ AfterWrite(p, q)
         \/ request_piece(p, q)

SpecHave == InitHave /\ [][NextTransfer]_vars

\* the step in which the handler of session (p, q) reads a HAVE frame
ReadsHave(p, q) ==
    /\ running[p]
    /\ running'[p]
    /\ handler[p][q].pc = "recv"
    /\ net[<<q, p>>] # << >>
    /\ Head(net[<<q, p>>]).type = MSG_HAVE
    /\ net'[<<q, p>>] = Tail(net[<<q, p>>])
    /\ connections'[p][q] # connections[p][q] \/ net'[<<p, q>>] # net[<<p, q>>]
           \/ has_piece(bitfield[p], Head(net[<<q, p>>]).index)

\* C21: the handler of HAVE(i) sets the bit i of the neighbor bitmap and sends
\* INTERESTED only when the piece is not held and am_interested was false:
\* with am_interested already true, or the piece held, it sends nothing.
C21_InterestedOnceOnHave ==
    [][\A p \in Peers : \A q \in Peers \ {p} :
          ReadsHave(p, q) =>
              LET i == Head(net[<<q, p>>]).index
                  sends == ~has_piece(bitfield[p], i)
                              /\ ~connections[p][q].am_interested
              IN  /\ connections'[p][q].neighbor_bitfield[i + 1] = 1
                  /\ net'[<<p, q>>] =
                        IF sends
                        THEN Append(net[<<p, q>>], Frame(MSG_INTERESTED, -1, <<>>))
                        ELSE net[<<p, q>>]]_vars

\* three peers and a file of MaxPieces pieces, seeder 1 and two leechers that
\* hold nothing: the seeder had unchoked u and has read its REQUEST(idx); then
\* a cycle of its choking_timer preferred the other leecher, so that CHOKE is on
\* its way to u and UNCHOKE to the other one
ChokedState(u, idx) ==
    LET c == Cfg(3, {1}, 1, MaxPieces) IN
    /\ config = c
    /\ sock = SockIdle
    /\ shake = NoHandshake
    /\ cycle = [p \in 1 .. c.n |-> NoCycle]
    /\ running = [p \in 1 .. c.n |-> TRUE]
    /\ bitfield = [p \in 1 .. c.n |->
                     [j \in 1 .. c.num_pieces |-> IF p \in c.hasFile THEN 1 ELSE 0]]
    /\ requested_pieces = [p \in 1 .. c.n |-> IF p = u THEN {idx} ELSE {}]
    /\ connections = [p \in 1 .. c.n |-> [q \in (1 .. c.n) \ {p} |->
           [NewConnection EXCEPT
              !.neighbor_bitfield = bitfield[q],
              !.am_interested = Interesting(bitfield[q], bitfield[p]),
              !.peer_interested = Interesting(bitfield[p], bitfield[q]),
              !.am_choking = ~(p = 1 /\ q # u),
              !.peer_choking = ~(p = u /\ q = 1)]]]
    /\ connOrder = [p \in 1 .. c.n |->
                      [j \in 1 .. (c.n - 1) |-> IF j < p THEN j ELSE j + 1]]
    /\ handler = [p \in 1 .. c.n |-> [q \in (1 .. c.n) \ {p} |->
                     IF p = 1 /\ q = u
                     THEN [Idle EXCEPT !.pc = "serve", !.idx = idx]
                     ELSE Idle]]
    /\ term = [p \in 1 .. c.n |-> "poll"]
    /\ net = [pr \in {x \in (1 .. c.n) \X (1 .. c.n) : x[1] # x[2]} |->
                 IF pr[1] # 1 THEN << >>
                 ELSE IF pr[2] = u THEN <<Frame(MSG_CHOKE, -1, <<>>)>>
                 ELSE <<Frame(MSG_UNCHOKE, -1, <<>>)>>]

InitChoked == \E u \in 2 .. 3 : \E idx \in 0 .. (MaxPieces - 1) : ChokedState(u, idx)

SpecChoked == InitChoked /\ [][NextTransfer]_vars

\* the step in which the handler of session (p, q) reads a frame of the type
ReadsFrame(p, q, type) ==
    /\ running[p]
    /\ running'[p]
    /\ handler[p][q].pc = "recv"
    /\ net[<<q, p>>] # << >>
    /\ Head(net[<<q, p>>]).type = type
    /\ net'[<<q, p>>] = Tail(net[<<q, p>>])
    /\ connections'[p][q] # connections[p][q] \/ handler'[p][q] # handler[p][q]

\* C22: a REQUEST is sent on a session only while its peer_choking is false.
\* Reading CHOKE sets peer_choking and leaves requested_pieces as it is, and
\* peer_choking becomes false again only by reading UNCHOKE; so after a CHOKE
\* no REQUEST is sent on the session until an UNCHOKE has been read.
C22_NoRequestWhileChoked ==
    [][\A p \in Peers : \A q \in DOMAIN connections[p] \cap DOMAIN connections'[p] :
          /\ SendsRequest(p, q) => ~connections[p][q].peer_choking
          /\ handler'[p][q].pc = "pick" => ~connections'[p][q].peer_choking
          /\ connections[p][q].peer_choking /\ ~connections'[p][q].peer_choking
                => ReadsFrame(p, q, MSG_UNCHOKE)
          /\ ~connections[p][q].peer_choking /\ connections'[p][q].peer_choking
                => /\ ReadsFrame(p, q, MSG_CHOKE)
                   /\ requested_pieces'[p] = requested_pieces[p]]_vars

\* a peer that has read CHOKE while its request was outstanding, has then
\* received and announced the piece, still lacks a piece the choking neighbor
\* has, and is back at reading frames without having sent a REQUEST
C22_Witness ==
    \E p \in Peers : \E q \in Peers \ {p} :
        /\ connections[p][q].peer_choking
        /\ handler[p][q].pc = "recv"
        /\ \E i \in 0 .. (config.num_pieces - 1) : has_piece(bitfield[p], i)
        /\ connections[p][q].downloaded_bytes_interval > 0
        /\ available_pieces(connections[p][q].neighbor_bitfield, bitfield[p],
                            requested_pieces[p]) # {}

\* the sessions of p marked as the optimistic choice
Optimistic(p) == {q \in DOMAIN connections[p] : connections[p][q].is_optimistic}

C24_AvailabilitySound ==
    /\ \A p \in Peers : \A q \in DOMAIN connections[p] :
          \A j \in 1 .. config.num_pieces :
              connections[p][q].neighbor_bitfield[j] = 1 => bitfield[q][j] = 1
    /\ \A q \in Peers : \A p \in Peers \ {q} :
          \A n \in 1 .. Len(net[<<q, p>>]) :
              LET m == net[<<q, p>>][n] IN
              /\ m.type = MSG_HAVE => has_piece(bitfield[q], m.index)
              /\ m.type = MSG_BITFIELD =>
                    \A j \in 1 .. config.num_pieces :
                        update_bitfield_from_bytes(m.payload, config.num_pieces)[j] = 1
                            => bitfield[q][j] = 1

\* a peer has learnt through HAVE that a neighbor which started without the
\* file holds one piece, while that neighbor still lacks another piece
C24_Witness ==
    \E p \in Peers : \E q \in DOMAIN connections[p] :
        /\ q \notin config.hasFile
        /\ \E j \in 1 .. config.num_pieces : connections[p][q].neighbor_bitfield[j] = 1
        /\ \E j \in 1 .. config.num_pieces : bitfield[q][j] = 0

\* Scenario 2 with the BITFIELD frames read, after the seeder has unchoked
\* both leechers, one as its preferred neighbor and one optimistically, and
\* both have read the UNCHOKE: each is about to choose the piece to request
InterestState ==
    LET c == Scenario2 IN
    /\ config = c
    /\ sock = SockIdle
    /\ shake = NoHandshake
    /\ cycle = [p \in 1 .. c.n |-> NoCycle]
    /\ running = [p \in 1 .. c.n |-> TRUE]
    /\ bitfield = [p \in 1 .. c.n |->
                     [j \in 1 .. c.num_pieces |-> IF p \in c.hasFile THEN 1 ELSE 0]]
    /\ requested_pieces = [p \in 1 .. c.n |-> {}]
    /\ connections = [p \in 1 .. c.n |-> [q \in (1 .. c.n) \ {p} |->
           [NewConnection EXCEPT
              !.neighbor_bitfield = bitfield[q],
              !.am_interested = Interesting(bitfield[q], bitfield[p]),
              !.peer_interested = Interesting(bitfield[p], bitfield[q]),
              !.am_choking = p # 1,
              !.peer_choking = q # 1,
              !.is_optimistic = (p = 1 /\ q = 3)]]]
    /\ connOrder = [p \in 1 .. c.n |->
                      [j \in 1 .. (c.n - 1) |-> IF j < p THEN j ELSE j + 1]]
    /\ handler = [p \in 1 .. c.n |-> [q \in (1 .. c.n) \ {p} |->
                     IF p # 1 /\ q = 1
                     THEN [Idle EXCEPT !.pc = "pick",
                                       !.avail = available_pieces(bitfield[1],
                                                                  bitfield[p], {})]
                     ELSE Idle]]
    /\ term = [p \in 1 .. c.n |-> "poll"]
    /\ net = [pr \in {x \in (1 .. c.n) \X (1 .. c.n) : x[1] # x[2]} |-> << >>]

\* the message handlers, the handling of HAVE in its two halves
NextInterest ==
    \E p \in PeerIds : \E q \in PeerIds :
         \/ ReceiveOther(p, q)
         \/ ReceiveHave(p, q)
         \/ HaveInterested(p, q)
         \/ ServePiece(p, q)
         \/ AfterWrite(p, q)
         \/ request_piece(p, q)

SpecInterest == InterestState /\ [][NextInterest]_vars

\* the frames INTERESTED and NOT_INTERESTED in flight from p to q
InterestFrames(p, q) ==
    SelectSeq(net[<<p, q>>], LAMBDA m : m.type \in {MSG_INTERESTED, MSG_NOT_INTERESTED})

\* C25: when no message handler of a peer is in the middle of a frame, on
\* each of its sessions am_interested is true exactly when the neighbor bitmap
\* has a piece the peer lacks, and the last INTERESTED or NOT_INTERESTED frame
\* sent on the session says the same as am_interested.
C25_InterestConsistent ==
    \A p \in Peers :
        (running[p] /\ \A q \in DOMAIN connections[p] : handler[p][q].pc = "recv")
        => \A q \in DOMAIN connections[p] :
              LET c == connections[p][q]
                  sent == InterestFrames(p, q)
              IN  /\ c.am_interested = Interesting(c.neighbor_bitfield, bitfield[p])
                  /\ sent # << >> =>
                        sent[Len(sent)].type = IF c.am_interested THEN MSG_INTERESTED
                                               ELSE MSG_NOT_INTERESTED

\* the frames CHOKE and UNCHOKE in flight from p to q
ChokeFramesInFlight(p, q) ==
    SelectSeq(net[<<p, q>>], LAMBDA m : m.type \in {MSG_CHOKE, MSG_UNCHOKE})

\* peer_choking of q for its session with p: true until q has registered it
PeerChoking(q, p) ==
    IF p \in DOMAIN connections[q] THEN connections[q][p].peer_choking ELSE TRUE

\* C26: on every session the CHOKE and UNCHOKE frames of a peer alternate,
\* starting with UNCHOKE: each frame in flight says the opposite of the one
\* before it, the first one the opposite of the receiver's peer_choking, and
\* the last one says what the sender's am_choking is; with none in flight the
\* receiver's peer_choking equals the sender's am_choking.  A step that flips
\* am_choking sends the frame that says so.
C26_ChokeAgreement ==
    /\ [](\A p \in Peers : \A q \in DOMAIN connections[p] :
            running[q] =>
               LET sent == ChokeFramesInFlight(p, q)
                   says(n) == (sent[n].type = MSG_CHOKE)
               IN  /\ \A n \in 1 .. Len(sent) :
                          says(n) = ~(IF n = 1 THEN PeerChoking(q, p) ELSE says(n - 1))
                   /\ connections[p][q].am_choking
                         = IF sent = << >> THEN PeerChoking(q, p) ELSE says(Len(sent)))
    /\ [][\A p \in Peers : \A q \in DOMAIN connections[p] \cap DOMAIN connections'[p] :
            (running'[q] /\ connections'[p][q].am_choking # connections[p][q].am_choking)
            => net'[<<p, q>>] =
                  Append(net[<<p, q>>],
                         Frame(IF connections'[p][q].am_choking THEN MSG_CHOKE
                               ELSE MSG_UNCHOKE, -1, <<>>))]_vars

\* a session that was unchoked, used for a REQUEST, and is choked again, the
\* CHOKE read: both ends agree that it is choked
C26_Witness ==
    \E p \in Peers : \E q \in DOMAIN connections[p] :
        /\ connections[p][q].am_choking
        /\ p \in DOMAIN connections[q]
        /\ connections[q][p].peer_choking
        /\ ChokeFramesInFlight(p, q) = << >>
        /\ requested_pieces[q] # {}
        /\ \A r \in DOMAIN connections[q] \ {p} : connections[q][r].peer_choking

====
